---------------------------- MODULE Spec2Model ----------------------------
(***************************************************************************)
(* NonBlockingDelay (EFR32): a free-running millisecond counter that the   *)
(* SysTick interrupt increments, and interval timers that the main loop    *)
(* polls.  The main context is one sequential program; the interrupt       *)
(* preempts it between any two of its steps unless interrupts are masked   *)
(* by CORE_ATOMIC_SECTION.  The counter is uint32_t in the source; here it *)
(* is W bits wide and all arithmetic on it is modulo 2^W.                  *)
(***************************************************************************)
EXTENDS Integers, FiniteSets, Sequences, TLC

\* Width of systick_millis and of both struct fields (uint32_t, scaled down).
W == 2
\* Width of one bus read: a counter wider than this is read in two parts.
ReadBits == 1

Modulus == 2 ^ W
LoModulus == 2 ^ ReadBits
Word == 0 .. (Modulus - 1)

\* The NonBlockingDelay instances of the application.
Timers == {"A", "B"}
NoTimer == "none"

\* typedef struct { uint32_t interval_ms; uint32_t previousMillis; }
TimerStruct == [interval_ms : Word, previousMillis : Word]
ZeroTimer == [interval_ms |-> 0, previousMillis |-> 0]

\* Core clock frequencies CMU_ClockFreqGet may report, and SysTick_Config's
\* return values (0: programmed, 1: reload value out of range).
CoreFrequencies == {0, 999, 1000, 38400000}
ConfigResults == {0, 1}

\* Ticks counted exactly by the bookkeeping below; MaxGap stands for "MaxGap
\* or more, or not known".
MaxGap == 2 * Modulus
\* Ticks delivered in the periodic-polling scenario.
PeriodTicks == 3 * Modulus

VARIABLES
  systick_millis,   \* volatile uint32_t systick_millis
  sysTickOn,        \* SysTick programmed and its interrupt enabled
  primask,          \* interrupts masked (inside CORE_ATOMIC_SECTION)
  delay,            \* the NonBlockingDelay instances
  pc,               \* position of the main context
  op,               \* library function the main context is in
  delayPtr,         \* its `delay` argument
  arg,              \* its `interval_ms` argument
  lo,               \* low part of the counter, already read
  currentMillis,    \* local of NonBlockingDelay_check
  ret,              \* value NonBlockingDelay_check returns
  \* ---- bookkeeping (history), not program state ----
  oldDelay,         \* *delay as it was when the running call was made
  lastCall,         \* the call that returned last
  marked,           \* previousMillis of timer A was read from the counter
  sinceMark,        \* ticks delivered since that read
  sincePend,        \* ticks delivered since the current call's read
  gap,              \* ticks between the mark's read and this call's read
  nTicks,           \* ticks delivered since configure (periodic scenario)
  polled,           \* check() has returned since the last tick
  bootIn            \* what NonBlockingDelay_initSysTick got from the hardware

progVars == <<systick_millis, sysTickOn, primask, delay, pc, op, delayPtr,
              arg, lo, currentMillis, ret>>
tickGhosts == <<lastCall, marked, sinceMark, sincePend, gap>>
schedGhosts == <<nTicks, polled, bootIn>>
vars == <<systick_millis, sysTickOn, primask, delay, pc, op, delayPtr,
          arg, lo, currentMillis, ret, oldDelay, lastCall, marked,
          sinceMark, sincePend, gap, nTicks, polled, bootIn>>

NoCall == [op |-> "none", arg |-> 0, ret |-> FALSE]
NoBoot == [coreFrequency |-> 0, configResult |-> 0]

-----------------------------------------------------------------------------
(* Arithmetic of the source *)

\* uint32_t subtraction: the difference modulo 2^W.
Sub32_nowrap(a, b) == IF a >= b THEN a - b ELSE 0
Sub32(a, b) == (a - b) % Modulus

\* systick_millis++ on a uint32_t.
Inc32_nowrap(a) == a + 1
Inc32(a) == (a + 1) % Modulus

\* (currentMillis - delay->previousMillis) >= delay->interval_ms
IntervalPassed_strict(now, d) == Sub32(now, d.previousMillis) > d.interval_ms
IntervalPassed(now, d) == Sub32(now, d.previousMillis) >= d.interval_ms

\* The counter as assembled from its two parts.
Assemble(hiPart, loPart) == hiPart * LoModulus + loPart

-----------------------------------------------------------------------------
(* The program *)

Init ==
  /\ systick_millis = 0
  /\ sysTickOn = FALSE
  /\ primask = FALSE
  /\ delay \in [Timers -> TimerStruct]      \* NonBlockingDelay myDelay;
  /\ pc = "boot"
  /\ op = "none"
  /\ delayPtr = NoTimer
  /\ arg = 0
  /\ lo = 0
  /\ currentMillis = 0
  /\ ret = FALSE
  /\ oldDelay = ZeroTimer
  /\ lastCall = NoCall
  /\ marked = FALSE
  /\ sinceMark = 0
  /\ sincePend = 0
  /\ gap = 0
  /\ nTicks = 0
  /\ polled = FALSE
  /\ bootIn = NoBoot

\* void SysTick_Handler(void): taken only while interrupts are not masked.
SysTick_Handler ==
  /\ sysTickOn
  /\ ~primask
  /\ systick_millis' = Inc32(systick_millis)
  /\ UNCHANGED <<sysTickOn, primask, delay, pc, op, delayPtr, arg, lo,
                 currentMillis, ret>>

\* void NonBlockingDelay_initSysTick(void)
NonBlockingDelay_initSysTick_unchecked(coreFrequency, configResult) ==
  /\ pc = "boot"
  /\ LET ticks == coreFrequency \div 1000 IN
       IF ticks = 0
         THEN pc' = "halt" /\ UNCHANGED sysTickOn
         ELSE pc' = "idle" /\ sysTickOn' = (configResult = 0)
  /\ UNCHANGED <<systick_millis, primask, delay, op, delayPtr, arg, lo,
                 currentMillis, ret>>
NonBlockingDelay_initSysTick(coreFrequency, configResult) ==
  /\ pc = "boot"
  /\ LET ticks == coreFrequency \div 1000 IN
       IF ticks = 0
         THEN pc' = "halt" /\ UNCHANGED sysTickOn
         ELSE IF configResult # 0
           THEN pc' = "halt" /\ UNCHANGED sysTickOn
           ELSE pc' = "idle" /\ sysTickOn' = TRUE
  /\ UNCHANGED <<systick_millis, primask, delay, op, delayPtr, arg, lo,
                 currentMillis, ret>>

\* while (1) ;
Halt ==
  /\ pc = "halt"
  /\ UNCHANGED progVars

\* The main loop calls a library function on one of its timers.
Call(f, t, interval_ms) ==
  /\ pc = "idle"
  /\ op' = f
  /\ delayPtr' = t
  /\ arg' = interval_ms
  /\ pc' = IF f \in {"Init", "setInterval"} THEN "set" ELSE "enter"
  /\ UNCHANGED <<systick_millis, sysTickOn, primask, delay, lo,
                 currentMillis, ret>>

\* NonBlockingDelay_Init: setInterval, then reset.
AfterSetInterval_noReset(f) == "done"
AfterSetInterval(f) == IF f = "Init" THEN "enter" ELSE "done"

\* delay->interval_ms = interval_ms;
NonBlockingDelay_setInterval_all ==
  /\ pc = "set"
  /\ delay' = [t \in Timers |-> [delay[t] EXCEPT !.interval_ms = arg]]
  /\ pc' = AfterSetInterval(op)
  /\ UNCHANGED <<systick_millis, sysTickOn, primask, op, delayPtr, arg, lo,
                 currentMillis, ret>>
NonBlockingDelay_setInterval_marks ==
  /\ pc = "set"
  /\ delay' = [delay EXCEPT ![delayPtr] =
                 [interval_ms |-> arg, previousMillis |-> systick_millis]]
  /\ pc' = AfterSetInterval(op)
  /\ UNCHANGED <<systick_millis, sysTickOn, primask, op, delayPtr, arg, lo,
                 currentMillis, ret>>
NonBlockingDelay_setInterval ==
  /\ pc = "set"
  /\ delay' = [delay EXCEPT ![delayPtr].interval_ms = arg]
  /\ pc' = AfterSetInterval(op)
  /\ UNCHANGED <<systick_millis, sysTickOn, primask, op, delayPtr, arg, lo,
                 currentMillis, ret>>

\* CORE_ATOMIC_SECTION( ... ): entry masks interrupts.
EnterAtomic_unmasked ==
  /\ pc = "enter"
  /\ pc' = "read_lo"
  /\ UNCHANGED <<systick_millis, sysTickOn, primask, delay, op, delayPtr,
                 arg, lo, currentMillis, ret>>
EnterAtomic ==
  /\ pc = "enter"
  /\ primask' = TRUE
  /\ pc' = "read_lo"
  /\ UNCHANGED <<systick_millis, sysTickOn, delay, op, delayPtr, arg, lo,
                 currentMillis, ret>>

\* ... = systick_millis;   first bus read: the low part.
ReadLo ==
  /\ pc = "read_lo"
  /\ lo' = systick_millis % LoModulus
  /\ pc' = "read_hi"
  /\ UNCHANGED <<systick_millis, sysTickOn, primask, delay, op, delayPtr,
                 arg, currentMillis, ret>>

\* second bus read: the high part; the assembled value is stored, in
\* delay->previousMillis by reset and in currentMillis by check.
ReadHi ==
  /\ pc = "read_hi"
  /\ LET value == Assemble(systick_millis \div LoModulus, lo) IN
       IF op = "check"
         THEN currentMillis' = value /\ UNCHANGED delay
         ELSE /\ delay' = [delay EXCEPT ![delayPtr].previousMillis = value]
              /\ UNCHANGED currentMillis
  /\ pc' = "exit"
  /\ UNCHANGED <<systick_millis, sysTickOn, primask, op, delayPtr, arg, lo,
                 ret>>

\* CORE_ATOMIC_SECTION( ... ): exit unmasks interrupts.
ExitAtomic_held ==
  /\ pc = "exit"
  /\ pc' = IF op = "check" THEN "cmp" ELSE "done"
  /\ UNCHANGED <<systick_millis, sysTickOn, primask, delay, op, delayPtr,
                 arg, lo, currentMillis, ret>>
ExitAtomic ==
  /\ pc = "exit"
  /\ primask' = FALSE
  /\ pc' = IF op = "check" THEN "cmp" ELSE "done"
  /\ UNCHANGED <<systick_millis, sysTickOn, delay, op, delayPtr, arg, lo,
                 currentMillis, ret>>

\* if ((currentMillis - delay->previousMillis) >= delay->interval_ms) ...
NonBlockingDelay_check_noRearm ==
  /\ pc = "cmp"
  /\ ret' = IntervalPassed(currentMillis, delay[delayPtr])
  /\ pc' = "done"
  /\ UNCHANGED <<systick_millis, sysTickOn, primask, delay, op, delayPtr,
                 arg, lo, currentMillis>>
NonBlockingDelay_check_drift ==
  /\ pc = "cmp"
  /\ IF IntervalPassed(currentMillis, delay[delayPtr])
       THEN /\ delay' = [delay EXCEPT ![delayPtr].previousMillis =
                           (@ + delay[delayPtr].interval_ms) % Modulus]
            /\ ret' = TRUE
       ELSE /\ ret' = FALSE
            /\ UNCHANGED delay
  /\ pc' = "done"
  /\ UNCHANGED <<systick_millis, sysTickOn, primask, op, delayPtr, arg, lo,
                 currentMillis>>
NonBlockingDelay_check ==
  /\ pc = "cmp"
  /\ IF IntervalPassed(currentMillis, delay[delayPtr])
       THEN /\ delay' = [delay EXCEPT ![delayPtr].previousMillis =
                           currentMillis]
            /\ ret' = TRUE
       ELSE /\ ret' = FALSE
            /\ UNCHANGED delay
  /\ pc' = "done"
  /\ UNCHANGED <<systick_millis, sysTickOn, primask, op, delayPtr, arg, lo,
                 currentMillis>>

\* The library function returns to the main loop; its locals die.
Return ==
  /\ pc = "done"
  /\ pc' = "idle"
  /\ op' = "none"
  /\ delayPtr' = NoTimer
  /\ arg' = 0
  /\ lo' = 0
  /\ currentMillis' = 0
  /\ ret' = FALSE
  /\ UNCHANGED <<systick_millis, sysTickOn, primask, delay>>

-----------------------------------------------------------------------------
(* Specification: any calls on both timers, ticks interleaved anywhere *)

Next ==
  \/ /\ \E f \in CoreFrequencies, r \in ConfigResults :
          NonBlockingDelay_initSysTick(f, r)
     /\ UNCHANGED <<oldDelay, tickGhosts, schedGhosts>>
  \/ /\ Halt
     /\ UNCHANGED <<oldDelay, tickGhosts, schedGhosts>>
  \/ /\ SysTick_Handler
     /\ UNCHANGED <<oldDelay, tickGhosts, schedGhosts>>
  \/ /\ \E t \in Timers :
          \/ \E i \in Word : Call("Init", t, i)
          \/ \E i \in Word : Call("setInterval", t, i)
          \/ Call("reset", t, 0)
     /\ UNCHANGED <<oldDelay, tickGhosts, schedGhosts>>
  \/ /\ \E t \in Timers :
          /\ Call("check", t, 0)
          /\ oldDelay' = delay[t]
     /\ UNCHANGED <<tickGhosts, schedGhosts>>
  \/ /\ NonBlockingDelay_setInterval
     /\ UNCHANGED <<oldDelay, tickGhosts, schedGhosts>>
  \/ /\ EnterAtomic
     /\ UNCHANGED <<oldDelay, tickGhosts, schedGhosts>>
  \/ /\ ReadLo
     /\ UNCHANGED <<oldDelay, tickGhosts, schedGhosts>>
  \/ /\ ReadHi
     /\ UNCHANGED <<oldDelay, tickGhosts, schedGhosts>>
  \/ /\ ExitAtomic
     /\ UNCHANGED <<oldDelay, tickGhosts, schedGhosts>>
  \/ /\ NonBlockingDelay_check
     /\ UNCHANGED <<oldDelay, tickGhosts, schedGhosts>>
  \/ /\ Return
     /\ oldDelay' = ZeroTimer
     /\ UNCHANGED <<tickGhosts, schedGhosts>>

Spec == Init /\ [][Next]_vars

-----------------------------------------------------------------------------
(* Bookkeeping of ticks for one timer, ObsTimer: how many ticks were       *)
(* delivered since the value in its previousMillis was read from the       *)
(* counter, and since the running call read the counter.                   *)

ObsTimer == "A"

Sat(n) == IF n >= MaxGap THEN MaxGap ELSE n

TickBook ==
  /\ sinceMark' = IF marked THEN Sat(sinceMark + 1) ELSE sinceMark
  /\ sincePend' = IF pc \in {"exit", "cmp", "done"}
                    THEN Sat(sincePend + 1) ELSE sincePend
  /\ UNCHANGED <<oldDelay, lastCall, marked, gap>>

CallBook(t) ==
  /\ oldDelay' = delay[t]
  /\ UNCHANGED <<lastCall, marked, sinceMark, sincePend, gap>>

\* The counter is read.  A check records how many ticks separate the mark's
\* read from its own (MaxGap: not known, no mark yet or too many ticks); a
\* reset makes the value read the new mark.
ReadBook ==
  /\ sincePend' = 0
  /\ IF op = "check"
       THEN /\ gap' = IF marked THEN sinceMark ELSE MaxGap
            /\ UNCHANGED <<marked, sinceMark>>
       ELSE /\ marked' = TRUE
            /\ sinceMark' = 0
            /\ UNCHANGED gap
  /\ UNCHANGED <<oldDelay, lastCall>>

CheckBook ==
  /\ IF ret'
       THEN marked' = TRUE /\ sinceMark' = sincePend
       ELSE UNCHANGED <<marked, sinceMark>>
  /\ UNCHANGED <<oldDelay, lastCall, sincePend, gap>>

ReturnBook ==
  /\ lastCall' = [op |-> op, arg |-> arg, ret |-> ret]
  /\ sincePend' = 0
  /\ gap' = 0
  /\ oldDelay' = ZeroTimer
  /\ UNCHANGED <<marked, sinceMark>>

NoBook == UNCHANGED <<oldDelay, lastCall, marked, sinceMark, sincePend, gap>>

\* The application owns one timer; the other instance is never touched.
InitTicks ==
  /\ Init
  /\ delay["B"] = ZeroTimer

NextTicks ==
  \/ /\ \E f \in CoreFrequencies, r \in ConfigResults :
          /\ NonBlockingDelay_initSysTick(f, r)
          /\ bootIn' = [coreFrequency |-> f, configResult |-> r]
     /\ NoBook /\ UNCHANGED <<nTicks, polled>>
  \/ /\ Halt
     /\ NoBook /\ UNCHANGED schedGhosts
  \/ /\ SysTick_Handler
     /\ TickBook /\ UNCHANGED schedGhosts
  \/ /\ \/ \E i \in Word : Call("Init", ObsTimer, i)
        \/ \E i \in Word : Call("setInterval", ObsTimer, i)
        \/ Call("reset", ObsTimer, 0)
        \/ Call("check", ObsTimer, 0)
     /\ CallBook(ObsTimer) /\ UNCHANGED schedGhosts
  \/ /\ NonBlockingDelay_setInterval
     /\ NoBook /\ UNCHANGED schedGhosts
  \/ /\ EnterAtomic
     /\ NoBook /\ UNCHANGED schedGhosts
  \/ /\ ReadLo
     /\ NoBook /\ UNCHANGED schedGhosts
  \/ /\ ReadHi
     /\ ReadBook /\ UNCHANGED schedGhosts
  \/ /\ ExitAtomic
     /\ NoBook /\ UNCHANGED schedGhosts
  \/ /\ NonBlockingDelay_check
     /\ CheckBook /\ UNCHANGED schedGhosts
  \/ /\ Return
     /\ ReturnBook /\ UNCHANGED schedGhosts

SpecTicks == InitTicks /\ [][NextTicks]_vars

-----------------------------------------------------------------------------
(* Periodic polling: NonBlockingDelay_Init(&myDelay, N), then the main     *)
(* loop of the usage example with one tick between consecutive polls.      *)

Periods == 1 .. (Modulus - 1)

NextPeriodic ==
  \/ /\ \E f \in CoreFrequencies, r \in ConfigResults :
          NonBlockingDelay_initSysTick(f, r)
     /\ NoBook /\ UNCHANGED schedGhosts
  \/ /\ Halt
     /\ NoBook /\ UNCHANGED schedGhosts
  \/ /\ pc = "idle" /\ lastCall.op = "none"       \* time before configure
     /\ SysTick_Handler
     /\ TickBook /\ UNCHANGED schedGhosts
  \/ /\ lastCall.op = "none"
     /\ \E n \in Periods : Call("Init", ObsTimer, n)
     /\ CallBook(ObsTimer) /\ UNCHANGED schedGhosts
  \/ /\ pc = "idle" /\ polled /\ nTicks < PeriodTicks
     /\ SysTick_Handler
     /\ TickBook
     /\ nTicks' = nTicks + 1
     /\ polled' = FALSE
     /\ UNCHANGED bootIn
  \/ /\ lastCall.op # "none" /\ ~polled
     /\ Call("check", ObsTimer, 0)
     /\ CallBook(ObsTimer) /\ UNCHANGED schedGhosts
  \/ /\ NonBlockingDelay_setInterval
     /\ NoBook /\ UNCHANGED schedGhosts
  \/ /\ EnterAtomic
     /\ NoBook /\ UNCHANGED schedGhosts
  \/ /\ ReadLo
     /\ NoBook /\ UNCHANGED schedGhosts
  \/ /\ ReadHi
     /\ ReadBook /\ UNCHANGED schedGhosts
  \/ /\ ExitAtomic
     /\ NoBook /\ UNCHANGED schedGhosts
  \/ /\ NonBlockingDelay_check
     /\ CheckBook /\ UNCHANGED schedGhosts
  \/ /\ Return
     /\ ReturnBook
     /\ polled' = TRUE
     /\ UNCHANGED <<nTicks, bootIn>>

SpecPeriodic == InitTicks /\ [][NextPeriodic]_vars

-----------------------------------------------------------------------------
(* The main loop of the usage example running forever: the timer is        *)
(* configured once, with any interval, and then polled; the counter is     *)
(* read at least once between any two consecutive ticks.  The main context *)
(* keeps executing (weak fairness), and the SysTick interrupt, pending     *)
(* whenever it cannot be taken, is taken once it can be (strong fairness). *)

LiveTick ==
  \/ /\ lastCall.op = "none"                     \* time before configure
     /\ SysTick_Handler
     /\ TickBook /\ UNCHANGED schedGhosts
  \/ /\ lastCall.op # "none" /\ polled
     /\ SysTick_Handler
     /\ TickBook
     /\ polled' = FALSE
     /\ UNCHANGED <<nTicks, bootIn>>

LiveMain ==
  \/ /\ \E f \in CoreFrequencies, r \in ConfigResults :
          NonBlockingDelay_initSysTick(f, r)
     /\ NoBook /\ UNCHANGED schedGhosts
  \/ /\ lastCall.op = "none"
     /\ \E i \in Word : Call("Init", ObsTimer, i)
     /\ CallBook(ObsTimer) /\ UNCHANGED schedGhosts
  \/ /\ lastCall.op # "none"
     /\ Call("check", ObsTimer, 0)
     /\ CallBook(ObsTimer) /\ UNCHANGED schedGhosts
  \/ /\ NonBlockingDelay_setInterval
     /\ NoBook /\ UNCHANGED schedGhosts
  \/ /\ EnterAtomic
     /\ NoBook /\ UNCHANGED schedGhosts
  \/ /\ ReadLo
     /\ NoBook /\ UNCHANGED schedGhosts
  \/ /\ ReadHi
     /\ ReadBook
     /\ polled' = TRUE
     /\ UNCHANGED <<nTicks, bootIn>>
  \/ /\ ExitAtomic
     /\ NoBook /\ UNCHANGED schedGhosts
  \/ /\ NonBlockingDelay_check
     /\ CheckBook /\ UNCHANGED schedGhosts
  \/ /\ Return
     /\ ReturnBook /\ UNCHANGED schedGhosts

LiveHalt ==
  /\ Halt
  /\ NoBook /\ UNCHANGED schedGhosts

NextLive == LiveMain \/ LiveTick \/ LiveHalt

SpecLive ==
  /\ InitTicks
  /\ [][NextLive]_vars
  /\ WF_vars(LiveMain)
  /\ SF_vars(LiveTick)

-----------------------------------------------------------------------------
(* Properties *)

CheckReturned == pc = "done" /\ op = "check"

\* C1: check() returns true if and only if (now - last_mark) mod 2^W >=
\* interval, now being the counter value the call read and last_mark and
\* interval the timer's fields when it was called.
C1_CheckIffElapsed ==
  CheckReturned =>
    (ret <=> ((currentMillis - oldDelay.previousMillis) % Modulus
                >= oldDelay.interval_ms))

C1_Witness ==
  /\ CheckReturned /\ ret
  /\ currentMillis < oldDelay.previousMillis
  /\ oldDelay.interval_ms > 0

\* C2: when check() returns true, last_mark is exactly the counter value the
\* call read; when it returns false, last_mark is what it was.
C2_MarkIsValueRead ==
  CheckReturned =>
    delay[delayPtr].previousMillis =
      IF ret THEN currentMillis ELSE oldDelay.previousMillis

C2_Witness ==
  /\ CheckReturned /\ ret
  /\ delay[delayPtr].previousMillis = currentMillis
  /\ systick_millis # currentMillis
  /\ currentMillis #
       (oldDelay.previousMillis + oldDelay.interval_ms) % Modulus

\* C3: when k < 2^W ticks were delivered between the read that produced
\* last_mark and the read of check(), the elapsed value check() computes is
\* k, also when the counter has wrapped in between, and check() returns true
\* if and only if k >= interval.
C3_WrapCorrect ==
  (CheckReturned /\ gap < Modulus) =>
    /\ (currentMillis - oldDelay.previousMillis) % Modulus = gap
    /\ ret <=> (gap >= oldDelay.interval_ms)

C3_Witness ==
  /\ CheckReturned /\ ret
  /\ gap < Modulus
  /\ currentMillis < oldDelay.previousMillis
  /\ gap = oldDelay.interval_ms

\* C4 as stated: right after a check() that returned true, a second check()
\* of the same timer, no tick delivered between the two reads, returns false.
C4_Original ==
  (/\ CheckReturned
   /\ lastCall.op = "check" /\ lastCall.ret
   /\ gap = 0) => ~ret

\* C4, amended: right after a check() that returned true, a second check()
\* of the same timer, no tick delivered between the two reads, returns false
\* provided the timer's interval is greater than 0.
C4_Rearm ==
  (/\ CheckReturned
   /\ lastCall.op = "check" /\ lastCall.ret
   /\ gap = 0
   /\ oldDelay.interval_ms > 0) => ~ret

C4_Witness ==
  /\ CheckReturned /\ ~ret
  /\ lastCall.op = "check" /\ lastCall.ret
  /\ gap = 0
  /\ oldDelay.interval_ms > 0

\* C5: a timer whose interval is 0 reports elapsed on every check(), whatever
\* last_mark and the counter are.
C5_ZeroInterval ==
  (CheckReturned /\ oldDelay.interval_ms = 0) => ret

C5_Witness ==
  /\ CheckReturned /\ ret
  /\ oldDelay.interval_ms = 0
  /\ currentMillis = oldDelay.previousMillis

\* C6: reset() followed immediately by check() of the same timer, no tick
\* delivered between the two reads, returns true if and only if interval = 0.
C6_ResetThenCheck ==
  (/\ CheckReturned
   /\ lastCall.op = "reset"
   /\ gap = 0) => (ret <=> (oldDelay.interval_ms = 0))

C6_Witness ==
  /\ CheckReturned /\ ret
  /\ lastCall.op = "reset"
  /\ gap = 0
  /\ oldDelay.interval_ms = 0

\* C7: set_interval(j) stores j in interval and leaves last_mark alone, and
\* the check() that follows returns true if and only if (now - last_mark) mod
\* 2^W >= j, last_mark being the mark from before set_interval: the time
\* since the earlier reset or successful check is measured against j.
C7_SetIntervalFrame ==
  /\ (pc = "done" /\ op = "setInterval") =>
       /\ delay[delayPtr].previousMillis = oldDelay.previousMillis
       /\ delay[delayPtr].interval_ms = arg
  /\ (CheckReturned /\ lastCall.op = "setInterval") =>
       /\ ret <=> ((currentMillis - oldDelay.previousMillis) % Modulus
                     >= lastCall.arg)
       /\ (gap < Modulus) => (ret <=> (gap >= lastCall.arg))

C7_Witness ==
  /\ CheckReturned /\ ret
  /\ lastCall.op = "setInterval"
  /\ lastCall.arg > 0
  /\ gap < Modulus
  /\ gap >= lastCall.arg

\* C8: after configure(N), 0 < N < 2^W, with check() called once after every
\* tick: check() returns true after the n-th tick exactly when n is a
\* multiple of N (false after each of the first N-1 ticks, true after the
\* N-th, then once every N ticks); a true result leaves last_mark at the
\* counter value of that tick, a false result comes fewer than N ticks after
\* the last mark.
C8_Periodic ==
  CheckReturned =>
    /\ ret <=> (nTicks % delay[ObsTimer].interval_ms = 0)
    /\ ret => delay[ObsTimer].previousMillis = systick_millis
    /\ ~ret => /\ sinceMark = nTicks % delay[ObsTimer].interval_ms
               /\ sinceMark < delay[ObsTimer].interval_ms

C8_Witness ==
  /\ CheckReturned /\ ret
  /\ delay[ObsTimer].interval_ms = Modulus - 1
  /\ nTicks = 2 * (Modulus - 1)

\* C9: every step of an operation on one timer, and every tick, leaves the
\* interval and last_mark of every other timer unchanged.
C9_Independent ==
  [][\A t \in Timers :
       (delayPtr # t /\ delayPtr' # t) => delay'[t] = delay[t]]_vars

C9_Witness ==
  /\ CheckReturned /\ ret /\ delayPtr = "A"
  /\ delay["A"] # oldDelay
  /\ delay["B"].interval_ms # delay["A"].interval_ms
  /\ delay["B"].previousMillis # delay["A"].previousMillis

\* C10: with the counter read in two parts, the counter does not change
\* between the partial reads of reset() or check(), and the value they
\* assemble is the value the counter holds at that one instant.
C10_NoTornRead ==
  [][/\ (pc \in {"read_lo", "read_hi"}) =>
          systick_millis' = systick_millis
     /\ (pc = "read_hi" /\ pc' = "exit") =>
          (IF op = "check" THEN currentMillis'
                           ELSE delay'[delayPtr].previousMillis)
            = systick_millis]_vars

C10_Witness ==
  /\ pc = "read_hi" /\ primask /\ sysTickOn
  /\ lo = LoModulus - 1
  /\ systick_millis = Modulus - 1

\* C11: if coreFrequency / 1000 is zero or SysTick_Config reports failure,
\* NonBlockingDelay_initSysTick never returns: the system is halted, stays
\* halted, the tick is not running and no timer operation has run or runs;
\* otherwise it returns with the periodic tick configured.
C11_FatalInit ==
  /\ [](pc # "boot" =>
          /\ (pc = "halt") <=> (\/ bootIn.coreFrequency \div 1000 = 0
                                \/ bootIn.configResult # 0)
          /\ (pc = "halt") => /\ ~sysTickOn /\ systick_millis = 0
                              /\ op = "none" /\ lastCall = NoCall
          /\ (pc # "halt") => sysTickOn)
  /\ [][pc = "halt" => (pc' = "halt" /\ UNCHANGED progVars)]_vars

C11_Witness ==
  /\ pc = "halt"
  /\ bootIn.coreFrequency \div 1000 # 0
  /\ bootIn.configResult # 0

\* C12: once a timer has been configured, its last_mark is a value the
\* counter held at an earlier or the current instant: the value it held
\* sinceMark ticks ago, sinceMark being the ticks delivered since the read
\* that produced the mark (while fewer than MaxGap).
C12_MarkWasHeld ==
  (marked /\ sinceMark < MaxGap) =>
    delay[ObsTimer].previousMillis = (systick_millis - sinceMark) % Modulus

C12_Witness ==
  /\ pc = "idle" /\ marked
  /\ lastCall.op = "check" /\ lastCall.ret
  /\ sinceMark > 0 /\ sinceMark < Modulus
  /\ systick_millis < delay[ObsTimer].previousMillis

\* C13: the counter starts at 0; a tick (a step that is not a step of the
\* main context) adds exactly 1 modulo 2^W; no step of initSysTick, Init,
\* setInterval, reset or check changes it.
C13_CounterOnlyTicks ==
  /\ systick_millis = 0
  /\ [][IF pc' # pc
          THEN systick_millis' = systick_millis
          ELSE systick_millis' = (systick_millis + 1) % Modulus]_vars

C13_Witness ==
  /\ CheckReturned
  /\ currentMillis = Modulus - 1
  /\ systick_millis = 0

\* C14 as stated: in check() and in reset() alike the tick is excluded for
\* the counter read only, so that the comparison and every write of
\* last_mark happen with the tick not excluded.
C14_Original ==
  [][/\ (pc = "cmp") => ~primask
     /\ \A t \in Timers :
          (delay'[t].previousMillis # delay[t].previousMillis) => ~primask]_vars

\* C14, amended: the tick is excluded only inside the atomic section.  In
\* check() that is the counter read alone: the comparison and the write of
\* last_mark come after it, and ticks may be delivered in between.  In
\* reset() the atomic section holds the counter read and the write of
\* last_mark both: no tick is delivered between them, and last_mark is the
\* counter's value at the instant it is written.
C14_MaskedSpan ==
  /\ [](primask => pc \in {"read_lo", "read_hi", "exit"})
  /\ [][\A t \in Timers :
          (delay'[t].previousMillis # delay[t].previousMillis) =>
            IF op = "check"
              THEN pc = "cmp" /\ ~primask
              ELSE /\ primask /\ primask'
                   /\ delay'[t].previousMillis = systick_millis']_vars

C14_Witness ==
  /\ pc = "cmp" /\ ~primask
  /\ sincePend > 0
  /\ currentMillis # systick_millis

\* C15: when k >= 2^W ticks were delivered between the read that produced
\* last_mark and the read of check(), the elapsed value check() computes is
\* k mod 2^W, smaller than k; check() returns true if and only if
\* k mod 2^W >= interval, and nothing but the ordinary result and re-arm is
\* left behind.
C15_OutOfRange ==
  (CheckReturned /\ gap >= Modulus /\ gap < MaxGap) =>
    /\ (currentMillis - oldDelay.previousMillis) % Modulus = gap % Modulus
    /\ gap % Modulus < gap
    /\ ret <=> (gap % Modulus >= oldDelay.interval_ms)
    /\ delay[delayPtr] =
         IF ret THEN [oldDelay EXCEPT !.previousMillis = currentMillis]
                ELSE oldDelay

C15_Witness ==
  /\ CheckReturned /\ ~ret
  /\ gap = Modulus + 1
  /\ oldDelay.interval_ms = 2

\* The state configure(i) and set_interval(i); reset() both leave: interval
\* is i and last_mark is the counter value the call read, which is the
\* counter's value sincePend ticks ago.
Configured(i) ==
  /\ delay[ObsTimer].interval_ms = i
  /\ marked /\ sinceMark = sincePend
  /\ sincePend < MaxGap =>
       delay[ObsTimer].previousMillis = (systick_millis - sincePend) % Modulus

\* C16: when configure(i) returns, interval = i and last_mark is the counter
\* value read during the call, whatever the timer held before and whatever
\* ticks were delivered during the call; set_interval(i) followed by reset()
\* returns in the same condition.
C16_ConfigureIsSetThenReset ==
  /\ (pc = "done" /\ op = "Init") => Configured(arg)
  /\ (pc = "done" /\ op = "reset" /\ lastCall.op = "setInterval") =>
       Configured(lastCall.arg)

C16_Witness ==
  /\ pc = "done" /\ op = "Init"
  /\ lastCall = NoCall
  /\ oldDelay.interval_ms # arg
  /\ oldDelay.previousMillis # delay[ObsTimer].previousMillis
  /\ sincePend > 0

\* C17: a check() that returns true read the counter at least `interval`
\* ticks after the read that produced last_mark (the read of the previous
\* true check(), or of reset()), however late or often the timer was polled
\* in between.
C17_NeverEarly ==
  (CheckReturned /\ ret /\ gap < MaxGap) => gap >= oldDelay.interval_ms

C17_Witness ==
  /\ CheckReturned /\ ret
  /\ lastCall.op = "check" /\ ~lastCall.ret
  /\ oldDelay.interval_ms > 0
  /\ gap > oldDelay.interval_ms
  /\ gap < Modulus

\* C18: if initialization succeeded (the system is not halted), ticks keep
\* being delivered and the counter is polled at least once between any two
\* consecutive ticks, then check() returns true again and again, for every
\* interval in 0 .. 2^W - 1 and across counter wraparound.
C18_FiresForever ==
  []<>(pc = "halt" \/ (CheckReturned /\ ret))

C18_Witness ==
  /\ CheckReturned /\ ret
  /\ lastCall.op = "check"
  /\ oldDelay.interval_ms = Modulus - 1
  /\ currentMillis < oldDelay.previousMillis

=============================================================================
